---- MODULE Spec2Model ----
(***************************************************************************)
(* A model of app.py: the module-level start-up (load_dotenv, the          *)
(* GROQ_API_KEY check, the creation of the FastAPI app) and the POST       *)
(* /analyze handler (pydantic validation of AnalyzeRequest, the f-string   *)
(* prompt, the one requests.post call, the unwrapping of the reply).       *)
(*                                                                         *)
(* Python and JSON values are tagged records: None is [t |-> "null"], a    *)
(* str is [t |-> "str", s |-> <<characters>>], a list is "arr", a dict is  *)
(* "obj" (a function from its keys to values), a raised exception is       *)
(* "exc".  Text is a sequence of tokens: the characters of user text are   *)
(* one token each, every literal line of the prompt template is one token. *)
(***************************************************************************)
EXTENDS Integers, Sequences, FiniteSets, TLC

VARIABLES
    environ,        \* os.environ restricted to GROQ_API_KEY: a function on {} or {KeyName}
    dotenvFile,     \* the .env file load_dotenv() reads, same shape
    pydanticMajor,  \* major version of the installed pydantic (the source pins none)
    phase,          \* "import" while app.py is being imported, then "ready" or "crashed"
    GROQ_API_KEY,   \* the module global of line 9
    pc,             \* per request: "idle", "rejected", "waiting", "done", "failed"
    body,           \* per request: the JSON body the client posted
    req,            \* per request: the AnalyzeRequest handed to analyze()
    prompt,         \* per request: the local variable prompt
    sent,           \* per request: the outbound requests.post call
    calls,          \* per request: number of outbound calls made for it
    upstream,       \* per request: what requests.post produced
    response,       \* per request: the HTTP response given to the client
    failedBefore    \* per request: whether some request had already failed when it arrived

vars == << environ, dotenvFile, pydanticMajor, phase, GROQ_API_KEY, pc, body, req,
           prompt, sent, calls, upstream, response, failedBefore >>

procVars == << environ, dotenvFile, pydanticMajor, phase, GROQ_API_KEY >>

-----------------------------------------------------------------------------
(* Bounds *)

MaxLen == 2         \* longest user text (code, error) in characters

MaxClients == 2     \* number of concurrent requests

-----------------------------------------------------------------------------
(* Values *)

Nil == [t |-> "nil"]

JNull == [t |-> "null"]

JStr(s) == [t |-> "str", s |-> s]

JNum(n) == [t |-> "num", n |-> n]

JArr(a) == [t |-> "arr", a |-> a]

JObj(o) == [t |-> "obj", o |-> o]

Exc(e) == [t |-> "exc", e |-> e]

IsExc(v) == v.t = "exc"

Alphabet == {"a", " "}

Texts(n) == UNION {[1..k -> Alphabet] : k \in 0..n}

-----------------------------------------------------------------------------
(* Start-up: lines 7-13 *)

KeyName == "GROQ_API_KEY"

\* load_dotenv(): copies the variables of the .env file into os.environ,
\* keeping a value the process environment already has (override=False)
LoadDotenv(env, file) ==
    [k \in (DOMAIN env) \cup (DOMAIN file) |->
        IF k \in DOMAIN env THEN env[k] ELSE file[k]]

\* os.getenv(k, ""): an unset variable reads as the empty string
GetenvDefaultEmpty(env, k) ==
    IF k \in DOMAIN env THEN JStr(env[k]) ELSE JStr(<<>>)

\* os.getenv(k): the value, or None when the variable is not set
Getenv(env, k) ==
    IF k \in DOMAIN env THEN JStr(env[k]) ELSE JNull

-----------------------------------------------------------------------------
(* The prompt: lines 21-35 *)

EmptyCodeText == << "[EMPTY CODE]" >>

NoErrorText == << "No error message" >>

TemplateHead ==
    << "\n",
       "You are a coding tutor/assistant of AI and Data Science bootcamp students. Your role is to support the students in learning Python. For this reason your role is to explain the errors their codes get, why, and to guide them to fix the code and also learn. Importantly, you must not provide the solution code itself, and only guidance. ",
       "\n", "\n", "Student code:", "\n" >>

TemplateMid == << "\n", "\n", "Error message:", "\n" >>

TemplateTail ==
    << "\n", "\n", "Explain:", "\n",
       "1. What is the issue?", "\n",
       "2. Why did it happen?", "\n",
       "3. How to fix it?", "\n",
       "4. Give a minimal example or a hint.", "\n" >>

\* Python truth value of a str or None
Truthy(v) == v.t = "str" /\ Len(v.s) > 0

\* d if v is None else v
PyOrNoneOnly(v, d) == IF v.t # "null" THEN v ELSE d

\* v or d
PyOr(v, d) == IF Truthy(v) THEN v ELSE d

\* the template with the two insertions exchanged
RenderSwapped(code, error) ==
    TemplateHead \o PyOr(error, JStr(NoErrorText)).s
        \o TemplateMid \o PyOr(code, JStr(EmptyCodeText)).s \o TemplateTail

\* the f-string of lines 21-35
Render(code, error) ==
    TemplateHead \o PyOr(code, JStr(EmptyCodeText)).s
        \o TemplateMid \o PyOr(error, JStr(NoErrorText)).s \o TemplateTail

-----------------------------------------------------------------------------
(* The request model: lines 15-17 *)

\* AnalyzeRequest(**body): the parsed model, or the validation error that makes
\* FastAPI answer 422 without calling analyze().  code: str is required and not
\* nullable.  error: str | None has no default: pydantic 1 reads that as an
\* optional field defaulting to None, pydantic 2 as a required field that may
\* be None.
ParseAnalyzeRequest(b, major) ==
    LET o == b.o
        codeOk == "code" \in DOMAIN o /\ o["code"].t = "str"
        errorOk == IF "error" \in DOMAIN o
                     THEN o["error"].t \in {"str", "null"}
                     ELSE major = 1
    IN  IF codeOk /\ errorOk
          THEN [t |-> "AnalyzeRequest",
                code |-> o["code"],
                error |-> IF "error" \in DOMAIN o THEN o["error"] ELSE JNull]
          ELSE Exc("ValidationError")

-----------------------------------------------------------------------------
(* The outbound call: lines 37-47 *)

ModelId == "llama-3.1-8b-instant"

Url == "https://api.groq.com/openai/v1/chat/completions"

\* the arguments of requests.post
BuildCall(key, p) ==
    [url |-> Url,
     authorization |-> << "Bearer " >> \o key.s,
     contentType |-> "application/json",
     model |-> ModelId,
     messages |-> << [role |-> "user", content |-> p] >>]

-----------------------------------------------------------------------------
(* Unwrapping the reply: lines 49-51 *)

\* the body of a reply that is not JSON text
RawText == [t |-> "raw"]

\* requests.post raised (connection error, timeout)
NetworkError == [kind |-> "error"]

HttpReply(status, b) == [kind |-> "http", status |-> status, body |-> b]

\* response.json()
ResponseJson(rep) ==
    IF rep.body.t = "raw" THEN Exc("JSONDecodeError") ELSE rep.body

\* v.get(k) in place of v[k]
GetKeyOrNone(v, k) ==
    CASE v.t = "exc" -> v
      [] v.t = "obj" -> IF k \in DOMAIN v.o THEN v.o[k] ELSE JNull
      [] OTHER -> Exc("TypeError")

\* v[k] for a str key k
GetKey(v, k) ==
    CASE v.t = "exc" -> v
      [] v.t = "obj" -> IF k \in DOMAIN v.o THEN v.o[k] ELSE Exc("KeyError")
      [] OTHER -> Exc("TypeError")

\* v[i] for an int index i >= 0
GetIndex(v, i) ==
    CASE v.t = "exc" -> v
      [] v.t = "arr" -> IF i < Len(v.a) THEN v.a[i + 1] ELSE Exc("IndexError")
      [] v.t = "str" -> IF i < Len(v.s) THEN JStr(<< v.s[i + 1] >>) ELSE Exc("IndexError")
      [] v.t = "obj" -> Exc("KeyError")
      [] OTHER -> Exc("TypeError")

\* response.json()["choices"][-1]["message"]["content"]
ExtractLastContent(rep) ==
    LET choices == GetKey(ResponseJson(rep), "choices")
    IN  IF choices.t = "arr" /\ Len(choices.a) > 0
          THEN GetKey(GetKey(choices.a[Len(choices.a)], "message"), "content")
          ELSE GetKey(GetKey(GetIndex(choices, 0), "message"), "content")

\* response.json()["choices"][0]["message"]["content"]
ExtractContent(rep) ==
    GetKey(GetKey(GetIndex(GetKey(ResponseJson(rep), "choices"), 0), "message"), "content")

\* what lines 37-51 evaluate to: the returned content or the exception raised
Outcome(rep) ==
    IF rep.kind = "error" THEN Exc("ConnectionError") ELSE ExtractContent(rep)

\* the HTTP response FastAPI builds from the handler's return value or exception
HandlerResponse(out) ==
    IF IsExc(out)
      THEN [status |-> 500, exc |-> out.e]
      ELSE [status |-> 200, json |-> JObj([analysis |-> out])]

-----------------------------------------------------------------------------
(* Inputs *)

Clients == 1..MaxClients

NoVars == [k \in {} |-> <<>>]

Environs == {NoVars, [k \in {KeyName} |-> <<>>], [k \in {KeyName} |-> << "e" >>]}

DotenvFiles == {NoVars, [k \in {KeyName} |-> << "d" >>]}

\* every JSON object over the keys code and error whose values are texts or null
Bodies(T) ==
    LET V == {JStr(s) : s \in T} \cup {JNull}
    IN  {JObj(o) : o \in UNION {[D -> V] : D \in SUBSET {"code", "error"}}}

AllBodies == Bodies(Texts(MaxLen))

GoodMessage == JObj([role |-> JStr(<< "assistant" >>), content |-> JStr(<< "x" >>)])

OtherChoice == JObj([message |-> JObj([content |-> JStr(<< "y" >>)])])

Contents == {JStr(<< "x" >>), JStr(<<>>), JNull, JNum(1), JArr(<<>>)}

Messages ==
    {JObj([content |-> c]) : c \in Contents}
        \cup {GoodMessage, JObj([role |-> JStr(<< "assistant" >>)]), JNull, JStr(<< "x" >>)}

ChoiceItems ==
    {JObj([message |-> m]) : m \in Messages}
        \cup {JObj([index |-> JNum(0), message |-> GoodMessage]),
              JObj([index |-> JNum(0)]), JNull, JStr(<< "x" >>)}

ChoicesValues ==
    {JArr(<< c >>) : c \in ChoiceItems}
        \cup {JArr(<< c, OtherChoice >>) :
                c \in {JObj([message |-> GoodMessage]), JObj([index |-> JNum(0)])}}
        \cup {JArr(<<>>), JNull, JStr(<< "x" >>), JStr(<<>>), JObj(NoVars)}

ReplyBodies ==
    {JObj([choices |-> v]) : v \in ChoicesValues}
        \cup {JObj([id |-> JStr(<< "x" >>),
                    choices |-> JArr(<< JObj([message |-> GoodMessage]), OtherChoice >>)]),
              JObj([error |-> JObj([message |-> JStr(<< "x" >>)])]),
              JObj(NoVars), JArr(<<>>), JNull, RawText}

Statuses == {200, 401, 500}

AllReplies ==
    {NetworkError} \cup {HttpReply(s, b) : s \in Statuses, b \in ReplyBodies}

\* the smaller inputs of the concurrent specification
FewBodies ==
    {JObj([code |-> JStr(<< "a" >>), error |-> JNull]),
     JObj([code |-> JStr(<<>>), error |-> JStr(<< " " >>)]),
     JObj([code |-> JStr(<< "a" >>), error |-> JStr(<<>>)]),
     JObj([error |-> JStr(<< "a" >>)])}

FewReplies ==
    {NetworkError,
     HttpReply(200, JObj([choices |-> JArr(<< JObj([message |-> GoodMessage]) >>)])),
     HttpReply(200, JObj([choices |-> JArr(<<>>)])),
     HttpReply(500, JObj([error |-> JObj([message |-> JStr(<< "x" >>)])]))}

-----------------------------------------------------------------------------
(* State machine *)

Init ==
    /\ environ \in Environs
    /\ dotenvFile \in DotenvFiles
    /\ pydanticMajor \in {1, 2}
    /\ phase = "import"
    /\ GROQ_API_KEY = Nil
    /\ pc = [r \in Clients |-> "idle"]
    /\ body = [r \in Clients |-> Nil]
    /\ req = [r \in Clients |-> Nil]
    /\ prompt = [r \in Clients |-> Nil]
    /\ sent = [r \in Clients |-> Nil]
    /\ calls = [r \in Clients |-> 0]
    /\ upstream = [r \in Clients |-> Nil]
    /\ response = [r \in Clients |-> Nil]
    /\ failedBefore = [r \in Clients |-> FALSE]

\* lines 7-13: importing app.py
ModuleImport ==
    /\ phase = "import"
    /\ LET env == LoadDotenv(environ, dotenvFile)
           key == Getenv(env, KeyName)
       IN  /\ environ' = env
           /\ GROQ_API_KEY' = key
           /\ phase' = IF key = JNull THEN "crashed" ELSE "ready"
    /\ UNCHANGED << dotenvFile, pydanticMajor, pc, body, req, prompt, sent, calls,
                    upstream, response, failedBefore >>

\* AnalyzeCall with the prompt kept in a module global that every request shares
AnalyzeCallSharedPrompt(r, b) ==
    /\ phase = "ready"
    /\ pc[r] = "idle"
    /\ body' = [body EXCEPT ![r] = b]
    /\ failedBefore' = [failedBefore EXCEPT ![r] = \E q \in Clients : pc[q] = "failed"]
    /\ LET parsed == ParseAnalyzeRequest(b, pydanticMajor)
       IN  IF IsExc(parsed)
             THEN /\ pc' = [pc EXCEPT ![r] = "rejected"]
                  /\ response' = [response EXCEPT ![r] = [status |-> 422]]
                  /\ UNCHANGED << req, prompt, sent, calls >>
             ELSE /\ pc' = [pc EXCEPT ![r] = "waiting"]
                  /\ req' = [req EXCEPT ![r] = parsed]
                  /\ prompt' = [q \in Clients |->
                                  IF q = r \/ pc[q] = "waiting"
                                    THEN Render(parsed.code, parsed.error)
                                    ELSE prompt[q]]
                  /\ sent' = [sent EXCEPT ![r] =
                                BuildCall(GROQ_API_KEY, Render(parsed.code, parsed.error))]
                  /\ calls' = [calls EXCEPT ![r] = @ + 1]
                  /\ UNCHANGED response
    /\ UNCHANGED << procVars, upstream >>

\* lines 19-47: a POST /analyze arrives with body b; it is validated and, when
\* valid, analyze() runs up to the blocking requests.post
AnalyzeCall(r, b) ==
    /\ phase = "ready"
    /\ pc[r] = "idle"
    /\ body' = [body EXCEPT ![r] = b]
    /\ failedBefore' = [failedBefore EXCEPT ![r] = \E q \in Clients : pc[q] = "failed"]
    /\ LET parsed == ParseAnalyzeRequest(b, pydanticMajor)
       IN  IF IsExc(parsed)
             THEN /\ pc' = [pc EXCEPT ![r] = "rejected"]
                  /\ response' = [response EXCEPT ![r] = [status |-> 422]]
                  /\ UNCHANGED << req, prompt, sent, calls >>
             ELSE /\ pc' = [pc EXCEPT ![r] = "waiting"]
                  /\ req' = [req EXCEPT ![r] = parsed]
                  /\ prompt' = [prompt EXCEPT ![r] = Render(parsed.code, parsed.error)]
                  /\ sent' = [sent EXCEPT ![r] =
                                BuildCall(GROQ_API_KEY, Render(parsed.code, parsed.error))]
                  /\ calls' = [calls EXCEPT ![r] = @ + 1]
                  /\ UNCHANGED response
    /\ UNCHANGED << procVars, upstream >>

\* AnalyzeReturn with one retry of a failed attempt
AnalyzeReturnRetry(r, rep) ==
    /\ pc[r] = "waiting"
    /\ IF IsExc(Outcome(rep)) /\ calls[r] < 2
         THEN /\ calls' = [calls EXCEPT ![r] = @ + 1]
              /\ UNCHANGED << pc, upstream, response >>
         ELSE /\ upstream' = [upstream EXCEPT ![r] = rep]
              /\ response' = [response EXCEPT ![r] = HandlerResponse(Outcome(rep))]
              /\ pc' = [pc EXCEPT ![r] = IF IsExc(Outcome(rep)) THEN "failed" ELSE "done"]
              /\ UNCHANGED calls
    /\ UNCHANGED << procVars, body, req, prompt, sent, failedBefore >>

\* lines 47-51: requests.post returns rep or raises, and analyze() finishes
AnalyzeReturn(r, rep) ==
    /\ pc[r] = "waiting"
    /\ upstream' = [upstream EXCEPT ![r] = rep]
    /\ response' = [response EXCEPT ![r] = HandlerResponse(Outcome(rep))]
    /\ pc' = [pc EXCEPT ![r] = IF IsExc(Outcome(rep)) THEN "failed" ELSE "done"]
    /\ UNCHANGED << procVars, body, req, prompt, sent, calls, failedBefore >>

\* concurrent requests, few inputs
Next ==
    \/ ModuleImport
    \/ \E r \in Clients, b \in FewBodies : AnalyzeCall(r, b)
    \/ \E r \in Clients, rep \in FewReplies : AnalyzeReturn(r, rep)

Spec == Init /\ [][Next]_vars

\* one request, every input
NextOne ==
    \/ ModuleImport
    \/ \E b \in AllBodies : AnalyzeCall(1, b)
    \/ \E rep \in AllReplies : AnalyzeReturn(1, rep)

SpecOne == Init /\ [][NextOne]_vars

-----------------------------------------------------------------------------
(* Vocabulary of the properties *)

\* analyze() was invoked for request r
Started(r) == pc[r] \in {"waiting", "done", "failed"}

\* request r has been answered by analyze()
Finished(r) == pc[r] \in {"done", "failed"}

HasCode(b) == "code" \in DOMAIN b.o /\ b.o["code"].t = "str"

\* the error of a posted body: its text, or null when the field is null or left out
ErrorOf(b) == IF "error" \in DOMAIN b.o THEN b.o["error"] ELSE JNull

\* s occurs in p as a contiguous run of tokens
Contains(p, s) ==
    \E i \in 0..(Len(p) - Len(s)) : SubSeq(p, i + 1, i + Len(s)) = s

\* a prompt read back: where the template's middle part starts, and the two
\* insertions around it
Framed(p) ==
    /\ Len(p) >= Len(TemplateHead) + Len(TemplateMid) + Len(TemplateTail)
    /\ SubSeq(p, 1, Len(TemplateHead)) = TemplateHead
    /\ SubSeq(p, Len(p) - Len(TemplateTail) + 1, Len(p)) = TemplateTail
    /\ \E i \in (Len(TemplateHead) + 1)..(Len(p) - Len(TemplateTail)) :
          SubSeq(p, i, i + Len(TemplateMid) - 1) = TemplateMid

MidAt(p) ==
    CHOOSE i \in (Len(TemplateHead) + 1)..(Len(p) - Len(TemplateTail)) :
        /\ SubSeq(p, i, i + Len(TemplateMid) - 1) = TemplateMid
        /\ \A j \in (Len(TemplateHead) + 1)..(i - 1) :
              SubSeq(p, j, j + Len(TemplateMid) - 1) # TemplateMid

CodeSlot(p) == SubSeq(p, Len(TemplateHead) + 1, MidAt(p) - 1)

ErrorSlot(p) == SubSeq(p, MidAt(p) + Len(TemplateMid), Len(p) - Len(TemplateTail))

\* the prompt the specification asks for
ExpectedCode(c) == IF c.s = <<>> THEN EmptyCodeText ELSE c.s

ExpectedError(e) == IF e.t = "str" /\ e.s # <<>> THEN e.s ELSE NoErrorText

Blank(s) == s # <<>> /\ \A i \in 1..Len(s) : s[i] = " "

\* the reply's JSON has the path choices[0].message.content
HasPath(b) ==
    /\ b.t = "obj"
    /\ "choices" \in DOMAIN b.o
    /\ b.o["choices"].t = "arr"
    /\ Len(b.o["choices"].a) > 0
    /\ b.o["choices"].a[1].t = "obj"
    /\ "message" \in DOMAIN b.o["choices"].a[1].o
    /\ b.o["choices"].a[1].o["message"].t = "obj"
    /\ "content" \in DOMAIN b.o["choices"].a[1].o["message"].o

PathValue(b) == b.o["choices"].a[1].o["message"].o["content"]

Is2xx(status) == status \in 200..299

-----------------------------------------------------------------------------
(* Properties *)

\* C1: when GROQ_API_KEY is absent from the environment the module reads at
\* start-up (os.environ once load_dotenv has run), the process never becomes
\* ready: no request is handled and no outbound call is made.
C1_NoCredentialNeverReady ==
    KeyName \notin DOMAIN LoadDotenv(environ, dotenvFile) =>
        /\ phase # "ready"
        /\ \A r \in Clients :
              /\ pc[r] = "idle"
              /\ calls[r] = 0
              /\ sent[r] = Nil
              /\ response[r] = Nil

C1_Witness ==
    /\ phase = "crashed"
    /\ KeyName \notin DOMAIN environ
    /\ GROQ_API_KEY = JNull

\* C2: a reply whose choices[0].message.content is a string makes analyze
\* return exactly {"analysis": that string}, whatever else the reply holds.
C2_FirstContentReturned ==
    \A r \in Clients :
        (/\ Finished(r)
         /\ upstream[r].kind = "http"
         /\ HasPath(upstream[r].body)
         /\ PathValue(upstream[r].body).t = "str")
        => /\ pc[r] = "done"
           /\ response[r] =
                [status |-> 200,
                 json |-> JObj([analysis |-> PathValue(upstream[r].body)])]

C2_Witness ==
    \E r \in Clients :
        /\ pc[r] = "done"
        /\ upstream[r].kind = "http"
        /\ HasPath(upstream[r].body)
        /\ Len(upstream[r].body.o["choices"].a) > 1
        /\ "id" \in DOMAIN upstream[r].body.o
        /\ response[r].json = JObj([analysis |-> JStr(<< "x" >>)])

\* C3: when requests.post raises or the reply's status is not 2xx, the request
\* fails: there is no success response with an analysis.
C3_HttpFailureFails ==
    \A r \in Clients :
        (/\ Finished(r)
         /\ \/ upstream[r].kind = "error"
            \/ ~Is2xx(upstream[r].status))
        => /\ pc[r] = "failed"
           /\ response[r].status # 200

\* C4: a reply without the path choices[0].message.content makes analyze
\* fail; no success response is given.
C4_MissingPathFails ==
    \A r \in Clients :
        (/\ Finished(r)
         /\ upstream[r].kind = "http"
         /\ ~HasPath(upstream[r].body))
        => /\ pc[r] = "failed"
           /\ response[r].status = 500
           /\ "json" \notin DOMAIN response[r]

C4_Witness ==
    \E r \in Clients :
        /\ pc[r] = "failed"
        /\ upstream[r].kind = "http"
        /\ upstream[r].body = JObj([choices |-> JArr(<< JObj([message |->
                                      JObj([role |-> JStr(<< "assistant" >>)])]) >>)])
        /\ response[r] = [status |-> 500, exc |-> "KeyError"]

\* C5: the analysis of every success response is a string, never null.
C5_AnalysisIsString ==
    \A r \in Clients :
        pc[r] = "done" => response[r].json.o["analysis"].t = "str"

\* C6: an invocation of analyze makes exactly one outbound call whatever its
\* outcome, a request that never reaches analyze makes none, and no step of a
\* request changes the process-level state.
C6_OneCallPerInvocation ==
    /\ [](\A r \in Clients :
            /\ Started(r) => calls[r] = 1
            /\ ~Started(r) => calls[r] = 0)
    /\ [][phase # "import" => procVars' = procVars]_vars

C6_Witness ==
    \E r \in Clients :
        /\ pc[r] = "failed"
        /\ upstream[r] = NetworkError
        /\ calls[r] = 1
        /\ response[r] = [status |-> 500, exc |-> "ConnectionError"]

\* C7: a request whose error is null, and equally one that leaves the error
\* field out, is accepted, and its prompt has "No error message" in the error
\* position.
C7_NullOrAbsentErrorAccepted ==
    \A r \in Clients :
        (/\ pc[r] # "idle"
         /\ HasCode(body[r])
         /\ ErrorOf(body[r]) = JNull)
        => /\ Started(r)
           /\ ErrorSlot(prompt[r]) = NoErrorText

\* C8: the prompt sent upstream is the template around the code (or
\* "[EMPTY CODE]" for empty code) and the error (or "No error message" when
\* there is no error text), so it contains both verbatim and is determined by
\* (code, error).
C8_PromptCarriesCodeAndError ==
    \A r \in Clients :
        Started(r) =>
            LET c == body[r].o["code"]
                e == ErrorOf(body[r])
                p == sent[r].messages[1].content
            IN  /\ Len(sent[r].messages) = 1
                /\ p = prompt[r]
                /\ Framed(p)
                /\ CodeSlot(p) = ExpectedCode(c)
                /\ ErrorSlot(p) = ExpectedError(e)
                /\ Contains(p, ExpectedCode(c))
                /\ Contains(p, ExpectedError(e))
                /\ p = TemplateHead \o ExpectedCode(c) \o TemplateMid
                         \o ExpectedError(e) \o TemplateTail

C8_Witness ==
    \E r \in Clients :
        /\ Started(r)
        /\ body[r].o["code"] = JStr(<<>>)
        /\ ErrorOf(body[r]) = JStr(<< "a", " " >>)
        /\ CodeSlot(prompt[r]) = EmptyCodeText
        /\ ErrorSlot(prompt[r]) = << "a", " " >>

\* request r's prompt, call and response come from its own body and reply
C9_Own(r) ==
    /\ Started(r) =>
          /\ prompt[r] = TemplateHead \o ExpectedCode(body[r].o["code"]) \o TemplateMid
                            \o ExpectedError(ErrorOf(body[r])) \o TemplateTail
          /\ sent[r] = BuildCall(GROQ_API_KEY, prompt[r])
    /\ Finished(r) =>
          /\ response[r] = HandlerResponse(Outcome(upstream[r]))
          /\ (pc[r] = "failed") = IsExc(Outcome(upstream[r]))
    /\ (\E q \in Clients : pc[q] = "failed") => phase = "ready"
    /\ (phase = "ready" /\ pc[r] = "idle") => ENABLED (\E b \in FewBodies : AnalyzeCall(r, b))

\* a step leaves what request r has already produced as it is
C9_Frame(r) ==
    /\ Started(r) =>
          /\ body'[r] = body[r]
          /\ prompt'[r] = prompt[r]
          /\ sent'[r] = sent[r]
    /\ Finished(r) =>
          /\ pc'[r] = pc[r]
          /\ upstream'[r] = upstream[r]
          /\ response'[r] = response[r]

\* C9: under every interleaving a request's prompt, outbound call and response
\* are those of its own body and its own upstream reply, no step changes
\* another request's data, the credential is never modified once read, and
\* the process stays ready after a request has failed.
C9_RequestsIndependent ==
    /\ [](\A r \in Clients : C9_Own(r))
    /\ [][\A r \in Clients : C9_Frame(r)]_vars
    /\ [][phase = "ready" => (phase' = "ready" /\ GROQ_API_KEY' = GROQ_API_KEY)]_vars

C9_Witness ==
    \E r1, r2 \in Clients :
        /\ r1 # r2
        /\ pc[r1] = "failed"
        /\ pc[r2] = "done"
        /\ failedBefore[r2]
        /\ body[r1] # body[r2]
        /\ phase = "ready"

\* C10: an empty-string error is rendered exactly like a null error, while a
\* non-empty code or error made of whitespace only is inserted verbatim.
C10_EmptyErrorLikeNull ==
    \A r \in Clients :
        Started(r) =>
            LET c == body[r].o["code"]
                e == ErrorOf(body[r])
            IN  /\ e = JStr(<<>>) =>
                      /\ ErrorSlot(prompt[r]) = NoErrorText
                      /\ prompt[r] = Render(c, JNull)
                      /\ sent[r] = BuildCall(GROQ_API_KEY, Render(c, JNull))
                /\ Blank(c.s) =>
                      /\ CodeSlot(prompt[r]) = c.s
                      /\ ~Contains(prompt[r], EmptyCodeText)
                /\ (e.t = "str" /\ Blank(e.s)) =>
                      /\ ErrorSlot(prompt[r]) = e.s
                      /\ ~Contains(prompt[r], NoErrorText)

C10_Witness ==
    \E r \in Clients :
        /\ Started(r)
        /\ body[r].o["code"] = JStr(<< " " >>)
        /\ ErrorOf(body[r]) = JStr(<<>>)
        /\ CodeSlot(prompt[r]) = << " " >>
        /\ ErrorSlot(prompt[r]) = NoErrorText

====
